---- MODULE Spec2Model ----
(***************************************************************************)
(* Sale-transaction and stock-ledger subsystem of the business management  *)
(* system: the request handlers of /sales, /products and /customers over   *)
(* the relational tables they read and write.                              *)
(*                                                                         *)
(* Money is held in cents (DECIMAL(x,2) columns).  A JavaScript value that *)
(* is absent, null, 0 or '' where the code only tests truthiness is the    *)
(* number 0 (ids, quantities, prices) or the string "" (text).             *)
(* A handler is a function of the tables and the request, yielding the     *)
(* tables it leaves and its answer.                                        *)
(*                                                                         *)
(* Spec:    every action is one whole request handler of /sales, /products *)
(*          or /customers, run after authenticateToken has produced the    *)
(*          identity `user`.                                               *)
(* SpecApi: requests as they arrive, with their bearer credential, at      *)
(*          /sales, /products, /customers and /analytics, and the requests *)
(*          to /init-db, /register and /login, from a blank database or an *)
(*          initialized one with a deactivated account.                    *)
(* SpecConcurrent: requests that hold a pooled connection, interleaved     *)
(*          statement by statement.                                        *)
(***************************************************************************)
EXTENDS Integers, Sequences, FiniteSets, TLC

VARIABLES
    products,         \* table products:  id -> row
    customers,        \* table customers: id -> row
    sales,            \* table sales:     id -> row
    sale_items,       \* table sale_items, in insertion order
    stock_movements,  \* table stock_movements, in insertion order
    price_history,    \* table price_history, in insertion order
    seq,              \* the SERIAL sequences of products, customers, sales
    users,            \* table users: id -> row
    categories,       \* the number of rows of table categories
    schema,           \* the tables exist (createTables has committed)
    env,              \* process.env, as far as the handlers read it
    clients,          \* the requests in flight that hold a pooled connection
    res               \* the last request that wrote to the database: its operation,
                      \* the status it was answered with and the id of the row it wrote

vars == <<products, customers, sales, sale_items, stock_movements, price_history, seq,
          users, categories, schema, env, clients, res>>

---------------------------------------------------------------------------
(* Bounds of the model *)

MaxSales == 2        \* values the sales id sequence hands out
MaxProducts == 2     \* values the products id sequence hands out
MaxCustomers == 2    \* values the customers id sequence hands out
MaxUsers == 5        \* rows of table users
MaxClients == 2      \* requests in flight at a time

(* Request inputs *)

NULL == 0                  \* SQL NULL in an integer column
NullText == "NULL"         \* SQL NULL in a text column
Undefined == "undefined"   \* a field the request body does not carry

ProductIds == 1..MaxProducts
CustomerIds == 1..MaxCustomers
SaleIds == 1..MaxSales
UserIds == 1..MaxUsers
ClientIds == 1..MaxClients

\* identities authenticateToken returns: the two seeded accounts
Identities == { [id |-> 1, role |-> "admin"], [id |-> 2, role |-> "sales_rep"] }

CustomerRefs == 0..MaxCustomers          \* 0: walk-in sale
SaleRefs == 0..MaxSales                  \* 0: no id in the query
Adjustments == { <<200, 100>>, <<0, 10>> }   \* <<discount_amount, tax_amount>>, 0 when absent

Item(p, q, u) == [product_id |-> p, quantity |-> q, unit_price |-> u]

\* carts that pass the checks of handleCreateSale
ValidCarts ==
    { << Item(1, 2, 1000) >>,
      << Item(1, 2, 1000), Item(2, 1, 500) >>,
      << Item(1, 1, 500), Item(1, 2, 1000) >> }

\* carts with a field absent (0), and the absent or empty item list
InvalidCarts ==
    { << >>,
      << Item(1, 2, 0) >>,
      << Item(1, 2, 1000), Item(0, 1, 500) >>,
      << Item(1, 2, 1000), Item(2, 0, 500) >> }

\* carts naming a product id that was never handed out
DanglingCarts == { << Item(1, 2, 1000), Item(MaxProducts + 1, 1, 500) >> }

Carts == ValidCarts \cup InvalidCarts \cup DanglingCarts

---------------------------------------------------------------------------
(* Rows *)

NoProduct == [exists |-> FALSE, stock_quantity |-> 0, selling_price |-> 0]
NoCustomer == [exists |-> FALSE, customer_type |-> "", total_purchases |-> 0]
NoUser ==
    [exists |-> FALSE, username |-> "", email |-> "", password |-> "", role |-> "",
     is_active |-> FALSE]
NoSale ==
    [exists |-> FALSE, sale_number |-> 0, customer_id |-> NULL, sales_rep_id |-> NULL,
     subtotal |-> 0, discount_amount |-> 0, tax_amount |-> 0, total_amount |-> 0,
     commission_amount |-> 0, commission_rate |-> 0,
     payment_method |-> NullText, payment_status |-> NullText, notes |-> NullText]

\* the tables as one value, for the statements below
DB ==
    [products |-> products, customers |-> customers, sales |-> sales,
     sale_items |-> sale_items, stock_movements |-> stock_movements,
     price_history |-> price_history, seq |-> seq,
     users |-> users, categories |-> categories, schema |-> schema]

\* the rows seedInitialData inserts
SeedUserRows ==
    << [exists |-> TRUE, username |-> "admin", email |-> "admin@nerho.com",
        password |-> "admin123", role |-> "admin", is_active |-> TRUE],
       [exists |-> TRUE, username |-> "sales_rep", email |-> "sales@nerho.com",
        password |-> "sales123", role |-> "sales_rep", is_active |-> TRUE] >>

SeedCategories == 5

SeedProductRows ==
    << [exists |-> TRUE, stock_quantity |-> 50, selling_price |-> 14999],
       [exists |-> TRUE, stock_quantity |-> 100, selling_price |-> 2499],
       [exists |-> TRUE, stock_quantity |-> 25, selling_price |-> 3999],
       [exists |-> TRUE, stock_quantity |-> 30, selling_price |-> 8999],
       [exists |-> TRUE, stock_quantity |-> 75, selling_price |-> 7999] >>

SeedCustomerRows ==
    << [exists |-> TRUE, customer_type |-> "individual", total_purchases |-> 0],
       [exists |-> TRUE, customer_type |-> "individual", total_purchases |-> 0],
       [exists |-> TRUE, customer_type |-> "business", total_purchases |-> 0] >>

\* table users once seedInitialData has run on an empty database
SeedUsers ==
    [u \in UserIds |-> IF u <= Len(SeedUserRows) THEN SeedUserRows[u] ELSE NoUser]

ProductExists(d, p) == p \in DOMAIN d.products /\ d.products[p].exists
CustomerExists(d, c) == c \in DOMAIN d.customers /\ d.customers[c].exists
SaleExists(d, s) == s \in DOMAIN d.sales /\ d.sales[s].exists

RECURSIVE SumSeq(_, _)
\* sum of f[i] for i in 1..n
SumSeq(f, n) == IF n = 0 THEN 0 ELSE f[n] + SumSeq(f, n - 1)

Abs(x) == IF x < 0 THEN -x ELSE x

\* n/m rounded to the nearest integer, ties away from zero (a numeric(x,2) assignment)
RoundDiv(n, m) ==
    LET q == (2 * Abs(n) + m) \div (2 * m)
    IN  IF n < 0 THEN -q ELSE q

---------------------------------------------------------------------------
(* SQL statements: each takes the tables d and yields [ok, db, error].     *)
(* The constraints are those of createTables.                               *)

Done(d) == [ok |-> TRUE, db |-> d, error |-> ""]
Failed(d, msg) == [ok |-> FALSE, db |-> d, error |-> msg]

\* INSERT INTO sales ... RETURNING *: the id is the sequence's next value, which
\* is consumed whether or not the insert succeeds
InsertSale(d, row) ==
    LET id == d.seq.sales + 1
        d1 == [d EXCEPT !.seq.sales = id]
    IN  IF \E s \in DOMAIN d.sales : d.sales[s].exists /\ d.sales[s].sale_number = row.sale_number
        THEN Failed(d1, "duplicate key value violates unique constraint sales_sale_number_key")
        ELSE IF row.customer_id # NULL /\ ~CustomerExists(d, row.customer_id)
        THEN Failed(d1, "violates foreign key constraint sales_customer_id_fkey")
        ELSE Done([d1 EXCEPT !.sales[id] = row])

\* INSERT INTO sale_items (sale_id, product_id, quantity, unit_price, total_price)
InsertSaleItem(d, sale_id, item) ==
    IF ~ProductExists(d, item.product_id)
    THEN Failed(d, "violates foreign key constraint sale_items_product_id_fkey")
    ELSE Done([d EXCEPT !.sale_items = Append(@,
                [sale_id |-> sale_id, product_id |-> item.product_id,
                 quantity |-> item.quantity, unit_price |-> item.unit_price,
                 total_price |-> item.quantity * item.unit_price])])

\* as UpdateStock, never below zero: GREATEST(stock_quantity + delta, 0)
MutUpdateStock(d, p, delta) ==
    IF ProductExists(d, p)
    THEN Done([d EXCEPT !.products[p].stock_quantity = IF @ + delta < 0 THEN 0 ELSE @ + delta])
    ELSE Done(d)

\* UPDATE products SET stock_quantity = stock_quantity + delta WHERE id = p
\* (no row matched: nothing is updated and the statement succeeds)
UpdateStock(d, p, delta) ==
    IF ProductExists(d, p)
    THEN Done([d EXCEPT !.products[p].stock_quantity = @ + delta])
    ELSE Done(d)

\* INSERT INTO stock_movements (product_id, movement_type, quantity, reference_type,
\*                              reference_id, created_by)
InsertMovement(d, p, type, qty, ref_type, ref_id, by) ==
    IF ~ProductExists(d, p)
    THEN Failed(d, "violates foreign key constraint stock_movements_product_id_fkey")
    ELSE Done([d EXCEPT !.stock_movements = Append(@,
                [product_id |-> p, movement_type |-> type, quantity |-> qty,
                 reference_type |-> ref_type, reference_id |-> ref_id, created_by |-> by])])

\* UPDATE customers SET total_purchases = total_purchases + delta WHERE id = c
UpdateTotalPurchases(d, c, delta) ==
    IF CustomerExists(d, c)
    THEN Done([d EXCEPT !.customers[c].total_purchases = @ + delta])
    ELSE Done(d)

\* as DeleteSaleRow, with the sale's movements deleted along with its items
MutDeleteSaleRow(d, s) ==
    IF SaleExists(d, s)
    THEN Done([d EXCEPT !.sales[s] = NoSale,
                        !.sale_items = SelectSeq(@, LAMBDA it : it.sale_id # s),
                        !.stock_movements = SelectSeq(@, LAMBDA m : m.reference_id # s)])
    ELSE Done(d)

\* DELETE FROM sales WHERE id = s, with sale_items.sale_id ON DELETE CASCADE
DeleteSaleRow(d, s) ==
    IF SaleExists(d, s)
    THEN Done([d EXCEPT !.sales[s] = NoSale,
                        !.sale_items = SelectSeq(@, LAMBDA it : it.sale_id # s)])
    ELSE Done(d)

\* rows appended to a table at the ids the sequence hands out next
InsertRows(table, next, rows) ==
    [id \in DOMAIN table |->
        IF id \in (next + 1)..(next + Len(rows)) THEN rows[id - next] ELSE table[id]]

\* the CREATE TABLE IF NOT EXISTS and CREATE INDEX IF NOT EXISTS statements
CreateTablesIfNotExist(d) == Done([d EXCEPT !.schema = TRUE])

\* INSERT INTO users: admin, then sales_rep (username is UNIQUE)
SeedUsersInsert(d) ==
    IF \E u \in DOMAIN d.users :
          d.users[u].exists /\ d.users[u].username \in {"admin", "sales_rep"}
    THEN Failed([d EXCEPT !.seq.users = @ + 1],
                "duplicate key value violates unique constraint users_username_key")
    ELSE Done([d EXCEPT !.users = InsertRows(@, d.seq.users, SeedUserRows),
                        !.seq.users = @ + Len(SeedUserRows)])

SeedCategoriesInsert(d) == Done([d EXCEPT !.categories = SeedCategories])

SeedProductsInsert(d) ==
    Done([d EXCEPT !.products = InsertRows(@, d.seq.products, SeedProductRows),
                   !.seq.products = @ + Len(SeedProductRows)])

SeedCustomersInsert(d) ==
    Done([d EXCEPT !.customers = InsertRows(@, d.seq.customers, SeedCustomerRows),
                   !.seq.customers = @ + Len(SeedCustomerRows)])

\* one statement of a transaction, as the handler issues it
Exec(d, st) ==
    CASE st.kind = "BEGIN" -> Done(d)
      [] st.kind = "COMMIT" -> Done(d)
      [] st.kind = "SELECT" -> Done(d)
      [] st.kind = "THROW" -> Failed(d, st.error)
      [] st.kind = "INSERT_SALE" -> InsertSale(d, st.row)
      [] st.kind = "INSERT_ITEM" -> InsertSaleItem(d, st.sale_id, st.item)
      [] st.kind = "UPDATE_STOCK" -> UpdateStock(d, st.product_id, st.delta)
      [] st.kind = "INSERT_MOVEMENT" ->
            InsertMovement(d, st.product_id, st.movement_type, st.quantity,
                           st.reference_type, st.reference_id, st.created_by)
      [] st.kind = "UPDATE_CUSTOMER" -> UpdateTotalPurchases(d, st.customer_id, st.delta)
      [] st.kind = "DELETE_SALE" -> DeleteSaleRow(d, st.sale_id)
      [] st.kind = "CREATE_TABLES" -> CreateTablesIfNotExist(d)
      [] st.kind = "SEED_USERS" -> SeedUsersInsert(d)
      [] st.kind = "SEED_CATEGORIES" -> SeedCategoriesInsert(d)
      [] st.kind = "SEED_PRODUCTS" -> SeedProductsInsert(d)
      [] st.kind = "SEED_CUSTOMERS" -> SeedCustomersInsert(d)

RECURSIVE RunFrom(_, _, _, _)
\* the statements stmts[i..] on d; statement failAt (if any) fails in the database
\* (connection lost, timeout), every other one fails only on a constraint
RunFrom(d, stmts, i, failAt) ==
    IF i > Len(stmts) THEN Done(d)
    ELSE IF i = failAt THEN Failed(d, "database error")
    ELSE LET r == Exec(d, stmts[i])
         IN  IF r.ok THEN RunFrom(r.db, stmts, i + 1, failAt) ELSE r

\* as Rollback, with the statements run so far kept (no ROLLBACK issued)
MutRollback(before, work) == work

\* ROLLBACK: the tables are again those at BEGIN; sequence values stay consumed
Rollback(before, work) == [before EXCEPT !.seq = work.seq]

\* try { BEGIN; ...; COMMIT } catch { ROLLBACK; throw } on the tables d
Transaction(d, stmts, failAt) ==
    LET run == RunFrom(d, stmts, 1, failAt)
    IN  IF run.ok THEN run ELSE Failed(Rollback(d, run.db), run.error)

---------------------------------------------------------------------------
(* Responses *)

\* the catch of handler(): 401 when the message mentions token, Invalid or inactive
AuthMessages == { "Access token required", "Invalid or expired token" }
CaughtStatus(msg) == IF msg \in AuthMessages THEN 401 ELSE 500

\* what a handler leaves: the tables, the HTTP status, the message it answered
\* (or, for a caught error, logged) and the id of the row it wrote
Result(d, status, error, id) == [db |-> d, status |-> status, error |-> error, id |-> id]

Reply(op, r) ==
    /\ products' = r.db.products
    /\ customers' = r.db.customers
    /\ sales' = r.db.sales
    /\ sale_items' = r.db.sale_items
    /\ stock_movements' = r.db.stock_movements
    /\ price_history' = r.db.price_history
    /\ seq' = r.db.seq
    /\ users' = r.db.users
    /\ categories' = r.db.categories
    /\ schema' = r.db.schema
    /\ UNCHANGED <<env, clients>>
    /\ res' = IF r.db = DB THEN res ELSE [op |-> op, status |-> r.status, id |-> r.id]

\* x || null of a text field
OrNull(x) == IF x \in {"", Undefined} THEN NullText ELSE x

\* x || current of a text field
OrCurrent(x, current) == IF x \in {"", Undefined} THEN current ELSE x

\* x !== undefined ? x : current
DefinedOrCurrent(x, current) == IF x # Undefined THEN x ELSE current

\* an optional number of a request body: << >> when the body does not carry it;
\* x !== undefined ? x : current, and the default of a destructured field
GivenOr(x, current) == IF x = << >> THEN current ELSE x[1]

---------------------------------------------------------------------------
(* POST /sales *)

ItemIncomplete(item) == item.product_id = 0 \/ item.quantity = 0 \/ item.unit_price = 0

Subtotal(items) ==
    SumSeq([i \in 1..Len(items) |-> items[i].quantity * items[i].unit_price], Len(items))

\* as TotalAmount, with the discount added instead of subtracted
MutTotalAmount(subtotal, discount_amount, tax_amount) == subtotal + discount_amount + tax_amount

TotalAmount(subtotal, discount_amount, tax_amount) == subtotal - discount_amount + tax_amount

CommissionRate(user) == IF user.role = "sales_rep" THEN 5 ELSE 0

\* (total_amount * commission_rate) / 100, stored in a DECIMAL(10,2) column
CommissionAmount(total_amount, commission_rate) == RoundDiv(total_amount * commission_rate, 100)

SaleRow(user, body, sale_number) ==
    LET subtotal == Subtotal(body.items)
        total_amount == TotalAmount(subtotal, body.discount_amount, body.tax_amount)
        commission_rate == CommissionRate(user)
    IN  [exists |-> TRUE, sale_number |-> sale_number,
         customer_id |-> body.customer_id, sales_rep_id |-> user.id,
         subtotal |-> subtotal, discount_amount |-> body.discount_amount,
         tax_amount |-> body.tax_amount, total_amount |-> total_amount,
         commission_amount |-> CommissionAmount(total_amount, commission_rate),
         commission_rate |-> commission_rate,
         payment_method |-> OrNull(body.payment_method), payment_status |-> "completed",
         notes |-> OrNull(body.notes)]

\* the three statements of the loop body for one line item
SaleItemStmts(sale_id, item, user) ==
    << [kind |-> "INSERT_ITEM", sale_id |-> sale_id, item |-> item],
       [kind |-> "UPDATE_STOCK", product_id |-> item.product_id, delta |-> -item.quantity],
       [kind |-> "INSERT_MOVEMENT", product_id |-> item.product_id, movement_type |-> "out",
        quantity |-> item.quantity, reference_type |-> "sale", reference_id |-> sale_id,
        created_by |-> user.id] >>

RECURSIVE Flatten(_)
Flatten(ss) == IF ss = << >> THEN << >> ELSE Head(ss) \o Flatten(Tail(ss))

\* the statements handleCreateSale issues on its client, in order
CreateSaleStmts(d, user, body, sale_number) ==
    LET sale_id == d.seq.sales + 1
        row == SaleRow(user, body, sale_number)
    IN  << [kind |-> "BEGIN"] >> \o
        ( IF \E i \in 1..Len(body.items) : ItemIncomplete(body.items[i])
          THEN << [kind |-> "THROW",
                   error |-> "Each item must have product_id, quantity, and unit_price"] >>
          ELSE << [kind |-> "INSERT_SALE", row |-> row] >> \o
               Flatten([i \in 1..Len(body.items) |-> SaleItemStmts(sale_id, body.items[i], user)]) \o
               ( IF body.customer_id # NULL
                 THEN << [kind |-> "UPDATE_CUSTOMER", customer_id |-> body.customer_id,
                          delta |-> row.total_amount] >>
                 ELSE << >> ) \o
               << [kind |-> "COMMIT"] >> )

handleCreateSale(d, user, body, sale_number, failAt) ==
    IF body.items = << >>
    THEN Result(d, 400, "Sale items are required", 0)
    ELSE LET tx == Transaction(d, CreateSaleStmts(d, user, body, sale_number), failAt)
         IN  IF tx.ok
             THEN Result(tx.db, 201, "Sale created successfully", tx.db.seq.sales)
             ELSE Result(tx.db, CaughtStatus(tx.error), tx.error, 0)

---------------------------------------------------------------------------
(* PUT /sales *)

\* as UpdateSaleRow, with the commission given up when the payment status changes
MutUpdateSaleRow(d, id, body) ==
    LET current == d.sales[id]
    IN  [d EXCEPT !.sales[id] =
            [current EXCEPT !.payment_method = OrCurrent(body.payment_method, current.payment_method),
                            !.payment_status = OrCurrent(body.payment_status, current.payment_status),
                            !.notes = DefinedOrCurrent(body.notes, current.notes),
                            !.commission_amount = IF body.payment_status = "pending" THEN 0 ELSE @]]

\* UPDATE sales SET payment_method, payment_status, notes WHERE id
UpdateSaleRow(d, id, body) ==
    LET current == d.sales[id]
    IN  [d EXCEPT !.sales[id] =
            [current EXCEPT !.payment_method = OrCurrent(body.payment_method, current.payment_method),
                            !.payment_status = OrCurrent(body.payment_status, current.payment_status),
                            !.notes = DefinedOrCurrent(body.notes, current.notes)]]

\* two statements on the pool; statement failAt (if any) fails in the database
handleUpdateSale(d, user, id, body, failAt) ==
    IF id = 0 THEN Result(d, 400, "Sale ID is required", 0)
    ELSE IF failAt = 1 THEN Result(d, CaughtStatus("database error"), "database error", 0)
    ELSE IF ~SaleExists(d, id) THEN Result(d, 404, "Sale not found", 0)
    ELSE IF failAt = 2 THEN Result(d, CaughtStatus("database error"), "database error", 0)
    ELSE Result(UpdateSaleRow(d, id, body), 200, "Sale updated successfully", id)

---------------------------------------------------------------------------
(* DELETE /sales *)

SaleItemsOf(d, id) == SelectSeq(d.sale_items, LAMBDA it : it.sale_id = id)

\* as RestoreItemStmts, with the movement logged and the stock left as it is
MutRestoreItemStmts(item, user) ==
    << [kind |-> "INSERT_MOVEMENT", product_id |-> item.product_id, movement_type |-> "in",
        quantity |-> item.quantity, reference_type |-> "sale_delete", reference_id |-> NULL,
        created_by |-> user.id] >>

\* the two statements of the loop body for one line item; sale is the result of
\* the SELECT, an object with no id property, so reference_id is NULL
RestoreItemStmts(item, user) ==
    << [kind |-> "UPDATE_STOCK", product_id |-> item.product_id, delta |-> item.quantity],
       [kind |-> "INSERT_MOVEMENT", product_id |-> item.product_id, movement_type |-> "in",
        quantity |-> item.quantity, reference_type |-> "sale_delete", reference_id |-> NULL,
        created_by |-> user.id] >>

\* the statements handleDeleteSale issues on its client, in order; sale is the row
\* read before the transaction
DeleteSaleStmts(d, user, id, sale) ==
    LET items == SaleItemsOf(d, id)
    IN  << [kind |-> "BEGIN"], [kind |-> "SELECT"] >> \o
        Flatten([i \in 1..Len(items) |-> RestoreItemStmts(items[i], user)]) \o
        ( IF sale.customer_id # NULL
          THEN << [kind |-> "UPDATE_CUSTOMER", customer_id |-> sale.customer_id,
                   delta |-> -sale.total_amount] >>
          ELSE << >> ) \o
        << [kind |-> "DELETE_SALE", sale_id |-> id], [kind |-> "COMMIT"] >>

\* as IsAdmin, with every authenticated identity let through
MutIsAdmin(user) == TRUE

IsAdmin(user) == user.role = "admin"

handleDeleteSale(d, user, id, failAt) ==
    IF id = 0 THEN Result(d, 400, "Sale ID is required", 0)
    ELSE IF ~IsAdmin(user) THEN Result(d, 403, "Only admins can delete sales", 0)
    ELSE IF ~SaleExists(d, id) THEN Result(d, 404, "Sale not found", 0)
    ELSE LET tx == Transaction(d, DeleteSaleStmts(d, user, id, d.sales[id]), failAt)
         IN  IF tx.ok
             THEN Result(tx.db, 200, "Sale deleted successfully", id)
             ELSE Result(tx.db, CaughtStatus(tx.error), tx.error, 0)

---------------------------------------------------------------------------
(* /products *)

PriceEntry(product_id, event_type, old_price, new_price, by) ==
    [product_id |-> product_id, event_type |-> event_type, old_price |-> old_price,
     new_price |-> new_price, changed_by |-> by]

\* POST /products: INSERT INTO products and INSERT INTO price_history on the pool,
\* each committed on its own
handleCreateProduct(d, user, body, failAt) ==
    IF body.name = "" \/ body.cost_price = 0 \/ body.selling_price = 0
    THEN Result(d, 400, "Name, cost price, and selling price are required", 0)
    ELSE IF failAt = 1 THEN Result(d, CaughtStatus("database error"), "database error", 0)
    ELSE LET id == d.seq.products + 1
             row == [exists |-> TRUE,
                     stock_quantity |-> GivenOr(body.stock_quantity, 0),
                     selling_price |-> body.selling_price]
             d1 == [d EXCEPT !.products[id] = row, !.seq.products = id]
         IN  IF failAt = 2 THEN Result(d1, CaughtStatus("database error"), "database error", 0)
             ELSE Result([d1 EXCEPT !.price_history = Append(@,
                             PriceEntry(id, "created", NULL, body.selling_price, user.id))],
                         201, "Product created successfully", id)

\* selling_price !== current.selling_price: the request carries a number and the
\* driver returns a DECIMAL column as a string, so the two are never identical
StrictlyDiffers(requested, current) == TRUE

\* UPDATE products SET ..., selling_price, stock_quantity, ... WHERE id
UpdateProductRow(d, id, body) ==
    LET current == d.products[id]
    IN  [d EXCEPT !.products[id] =
            [current EXCEPT
                !.selling_price = IF body.selling_price # 0 THEN body.selling_price
                                  ELSE current.selling_price,
                !.stock_quantity = GivenOr(body.stock_quantity, current.stock_quantity)]]

\* PUT /products: SELECT, UPDATE and INSERT INTO price_history on the pool
handleUpdateProduct(d, user, id, body, failAt) ==
    IF id = 0 THEN Result(d, 400, "Product ID is required", 0)
    ELSE IF failAt = 1 THEN Result(d, CaughtStatus("database error"), "database error", 0)
    ELSE IF ~ProductExists(d, id) THEN Result(d, 404, "Product not found", 0)
    ELSE IF failAt = 2 THEN Result(d, CaughtStatus("database error"), "database error", 0)
    ELSE LET current == d.products[id]
             d1 == UpdateProductRow(d, id, body)
         IN  IF body.selling_price # 0 /\ StrictlyDiffers(body.selling_price, current.selling_price)
             THEN IF failAt = 3
                  THEN Result(d1, CaughtStatus("database error"), "database error", 0)
                  ELSE Result([d1 EXCEPT !.price_history = Append(@,
                                  PriceEntry(id, "updated", current.selling_price,
                                             body.selling_price, user.id))],
                              200, "Product updated successfully", id)
             ELSE Result(d1, 200, "Product updated successfully", id)

\* DELETE FROM products WHERE id: price_history cascades; sale_items and
\* stock_movements reference products with no ON DELETE action
DeleteProductRow(d, id) ==
    IF \/ \E i \in 1..Len(d.sale_items) : d.sale_items[i].product_id = id
       \/ \E i \in 1..Len(d.stock_movements) : d.stock_movements[i].product_id = id
    THEN Failed(d, "update or delete on table products violates foreign key constraint")
    ELSE Done([d EXCEPT !.products[id] = NoProduct,
                        !.price_history = SelectSeq(@, LAMBDA h : h.product_id # id)])

\* as UsedInSales, with the SELECT finding no row
MutUsedInSales(d, id) == FALSE

\* SELECT id FROM sale_items WHERE product_id = id LIMIT 1 finds a row
UsedInSales(d, id) == \E i \in 1..Len(d.sale_items) : d.sale_items[i].product_id = id

\* DELETE /products: two SELECTs and the DELETE on the pool
handleDeleteProduct(d, user, id, failAt) ==
    IF id = 0 THEN Result(d, 400, "Product ID is required", 0)
    ELSE IF failAt = 1 THEN Result(d, CaughtStatus("database error"), "database error", 0)
    ELSE IF ~ProductExists(d, id) THEN Result(d, 404, "Product not found", 0)
    ELSE IF UsedInSales(d, id)
    THEN Result(d, 400, "Cannot delete product that has been used in sales", 0)
    ELSE LET r == DeleteProductRow(d, id)
         IN  IF r.ok THEN Result(r.db, 200, "Product deleted successfully", id)
             ELSE Result(r.db, CaughtStatus(r.error), r.error, 0)

---------------------------------------------------------------------------
(* /customers *)

\* POST /customers
handleCreateCustomer(d, user, body, failAt) ==
    IF body.name = "" THEN Result(d, 400, "Customer name is required", 0)
    ELSE IF failAt = 1 THEN Result(d, CaughtStatus("database error"), "database error", 0)
    ELSE LET id == d.seq.customers + 1
         IN  Result([d EXCEPT !.customers[id] =
                        [exists |-> TRUE,
                         customer_type |-> DefinedOrCurrent(body.customer_type, "individual"),
                         total_purchases |-> 0],
                               !.seq.customers = id],
                    201, "Customer created successfully", id)

\* as UpdateCustomerRow, with total_purchases among the columns written
MutUpdateCustomerRow(d, id, body) ==
    [d EXCEPT !.customers[id].customer_type = OrCurrent(body.customer_type, @),
              !.customers[id].total_purchases = 0]

\* UPDATE customers SET name, email, phone, address, customer_type WHERE id
UpdateCustomerRow(d, id, body) ==
    [d EXCEPT !.customers[id].customer_type = OrCurrent(body.customer_type, @)]

\* PUT /customers
handleUpdateCustomer(d, user, id, body, failAt) ==
    IF id = 0 THEN Result(d, 400, "Customer ID is required", 0)
    ELSE IF failAt = 1 THEN Result(d, CaughtStatus("database error"), "database error", 0)
    ELSE IF ~CustomerExists(d, id) THEN Result(d, 404, "Customer not found", 0)
    ELSE Result(UpdateCustomerRow(d, id, body), 200, "Customer updated successfully", id)

\* DELETE FROM customers WHERE id: sales reference customers with no ON DELETE action
DeleteCustomerRow(d, id) ==
    IF \E s \in DOMAIN d.sales : d.sales[s].exists /\ d.sales[s].customer_id = id
    THEN Failed(d, "update or delete on table customers violates foreign key constraint")
    ELSE Done([d EXCEPT !.customers[id] = NoCustomer])

\* SELECT id FROM sales WHERE customer_id = id LIMIT 1 finds a row
HasSales(d, id) == \E s \in DOMAIN d.sales : d.sales[s].exists /\ d.sales[s].customer_id = id

\* DELETE /customers
handleDeleteCustomer(d, user, id, failAt) ==
    IF id = 0 THEN Result(d, 400, "Customer ID is required", 0)
    ELSE IF failAt = 1 THEN Result(d, CaughtStatus("database error"), "database error", 0)
    ELSE IF ~CustomerExists(d, id) THEN Result(d, 404, "Customer not found", 0)
    ELSE IF HasSales(d, id)
    THEN Result(d, 400, "Cannot delete customer that has sales history", 0)
    ELSE LET r == DeleteCustomerRow(d, id)
         IN  IF r.ok THEN Result(r.db, 200, "Customer deleted successfully", id)
             ELSE Result(r.db, CaughtStatus(r.error), r.error, 0)

---------------------------------------------------------------------------
(* POST /init-db *)

\* the statements createTables issues on its client
CreateTablesStmts ==
    << [kind |-> "BEGIN"], [kind |-> "CREATE_TABLES"], [kind |-> "COMMIT"] >>

\* as SeedStmts, with the demo products inserted whether or not the table has rows
MutSeedStmts(d) ==
    << [kind |-> "BEGIN"] >> \o
    ( IF \E u \in DOMAIN d.users : d.users[u].exists /\ d.users[u].username = "admin"
      THEN << >> ELSE << [kind |-> "SEED_USERS"] >> ) \o
    ( IF d.categories > 0 THEN << >> ELSE << [kind |-> "SEED_CATEGORIES"] >> ) \o
    << [kind |-> "SEED_PRODUCTS"] >> \o
    ( IF \E c \in DOMAIN d.customers : d.customers[c].exists
      THEN << >> ELSE << [kind |-> "SEED_CUSTOMERS"] >> ) \o
    << [kind |-> "COMMIT"] >>

\* the statements seedInitialData issues on its client: each kind of row is
\* inserted when its SELECT finds none
SeedStmts(d) ==
    << [kind |-> "BEGIN"] >> \o
    ( IF \E u \in DOMAIN d.users : d.users[u].exists /\ d.users[u].username = "admin"
      THEN << >> ELSE << [kind |-> "SEED_USERS"] >> ) \o
    ( IF d.categories > 0 THEN << >> ELSE << [kind |-> "SEED_CATEGORIES"] >> ) \o
    ( IF \E p \in DOMAIN d.products : d.products[p].exists
      THEN << >> ELSE << [kind |-> "SEED_PRODUCTS"] >> ) \o
    ( IF \E c \in DOMAIN d.customers : d.customers[c].exists
      THEN << >> ELSE << [kind |-> "SEED_CUSTOMERS"] >> ) \o
    << [kind |-> "COMMIT"] >>

\* createTables, then seedInitialData, each a transaction on a client of its own;
\* statement failAt (if any), counted over both, fails in the database
initializeDatabase(d, failAt) ==
    LET created == Transaction(d, CreateTablesStmts, failAt)
    IN  IF ~created.ok THEN created
        ELSE Transaction(created.db, SeedStmts(created.db), failAt - Len(CreateTablesStmts))

\* POST /init-db with body.init_key, under the environment e
handleInitDb(d, e, body, failAt) ==
    IF body.init_key # e.DB_INIT_KEY
    THEN Result(d, 403, "Invalid initialization key", 0)
    ELSE LET done == initializeDatabase(d, failAt)
         IN  IF done.ok THEN Result(done.db, 200, "Database initialized successfully", 0)
             ELSE Result(done.db, 500, "Database initialization failed", 0)

---------------------------------------------------------------------------
(* Requests *)

\* what generateSaleNumber can return: a number no sale has, or one a sale has
SaleNumbers(d) ==
    { d.seq.sales + 1 } \cup { d.sales[s].sale_number : s \in { t \in DOMAIN d.sales : d.sales[t].exists } }

SaleBody(c, cart, a) ==
    [customer_id |-> c, items |-> cart, discount_amount |-> a[1], tax_amount |-> a[2],
     payment_method |-> "cash", notes |-> Undefined]

\* every combination of customer, cart and adjustments
SaleBodies == { SaleBody(c, cart, a) : c \in CustomerRefs, cart \in Carts, a \in Adjustments }

\* the create-sale requests the behaviours make
SaleRequests ==
    { SaleBody(1, << Item(1, 2, 1000), Item(2, 1, 500) >>, <<200, 100>>),
      SaleBody(0, << Item(1, 2, 1000) >>, <<0, 10>>),
      SaleBody(2, << Item(1, 1, 500), Item(1, 2, 1000) >>, <<0, 10>>),
      SaleBody(1, << >>, <<0, 10>>),
      SaleBody(1, << Item(1, 2, 1000), Item(2, 0, 500) >>, <<0, 10>>),
      SaleBody(1, << Item(1, 2, 1000), Item(MaxProducts + 1, 1, 500) >>, <<0, 10>>) }

SaleUpdates ==
    { [payment_method |-> Undefined, payment_status |-> Undefined, notes |-> Undefined],
      [payment_method |-> "card", payment_status |-> "pending", notes |-> "on account"] }

ProductBodies ==
    { [name |-> "", cost_price |-> 800, selling_price |-> 2499, stock_quantity |-> << >>],
      [name |-> "Premium Cotton T-Shirt", cost_price |-> 800, selling_price |-> 2499,
       stock_quantity |-> << >>] }

ProductUpdates ==
    { [selling_price |-> 0, stock_quantity |-> <<1>>] }

CustomerBodies ==
    { [name |-> "", customer_type |-> Undefined],
      [name |-> "ABC Corporation", customer_type |-> "business"] }

Admin == CHOOSE u \in Identities : u.role = "admin"

CreateSale ==
    /\ seq.sales < MaxSales
    /\ \E user \in Identities, body \in SaleRequests, sale_number \in SaleNumbers(DB) :
          Reply("createSale", handleCreateSale(DB, user, body, sale_number, 0))

\* a create-sale one of whose statements fails in the database
CreateSaleFault ==
    /\ seq.sales < MaxSales
    /\ \E user \in Identities, body \in SaleRequests :
          /\ body.items \in ValidCarts
          /\ \E failAt \in 1..Len(CreateSaleStmts(DB, user, body, DB.seq.sales + 1)) :
                Reply("createSale", handleCreateSale(DB, user, body, DB.seq.sales + 1, failAt))

UpdateSale ==
    \E user \in Identities, id \in SaleRefs, body \in SaleUpdates :
        Reply("updateSale", handleUpdateSale(DB, user, id, body, 0))

DeleteSale ==
    \E user \in Identities, id \in SaleRefs :
        Reply("deleteSale", handleDeleteSale(DB, user, id, 0))

\* a delete-sale one of whose statements fails in the database
DeleteSaleFault ==
    \E id \in SaleIds :
        /\ SaleExists(DB, id)
        /\ \E failAt \in 1..Len(DeleteSaleStmts(DB, Admin, id, sales[id])) :
              Reply("deleteSale", handleDeleteSale(DB, Admin, id, failAt))

CreateProduct ==
    /\ seq.products < MaxProducts
    /\ \E body \in ProductBodies :
          Reply("createProduct", handleCreateProduct(DB, Admin, body, 0))

UpdateProduct ==
    \E id \in ProductIds, body \in ProductUpdates :
        Reply("updateProduct", handleUpdateProduct(DB, Admin, id, body, 0))

DeleteProduct ==
    \E id \in ProductIds :
        Reply("deleteProduct", handleDeleteProduct(DB, Admin, id, 0))

CreateCustomer ==
    /\ seq.customers < MaxCustomers
    /\ \E body \in CustomerBodies :
          Reply("createCustomer", handleCreateCustomer(DB, Admin, body, 0))

UpdateCustomer ==
    \E id \in CustomerIds, body \in CustomerBodies :
        Reply("updateCustomer", handleUpdateCustomer(DB, Admin, id, body, 0))

DeleteCustomer ==
    \E id \in CustomerIds :
        Reply("deleteCustomer", handleDeleteCustomer(DB, Admin, id, 0))

---------------------------------------------------------------------------
(* Requests in flight *)

\* no request in flight
NoClient ==
    [kind |-> "none", user |-> [id |-> 0, role |-> ""], body |-> << >>, id |-> 0,
     sale_number |-> 0, sale |-> NoSale, unit |-> 0, pc |-> "done", i |-> 0, sale_id |-> 0,
     read |-> << >>,
     error |-> "", acquired |-> 0, released |-> 0, status |-> 0]

---------------------------------------------------------------------------
(* The database after createTables and seedInitialData, with the first seeded   *)
(* product and the first seeded customer; no request has been answered.         *)

Init ==
    /\ products = [p \in ProductIds |-> IF p = 1 THEN SeedProductRows[1] ELSE NoProduct]
    /\ customers = [c \in CustomerIds |-> IF c = 1 THEN SeedCustomerRows[1] ELSE NoCustomer]
    /\ sales = [s \in SaleIds |-> NoSale]
    /\ sale_items = << >>
    /\ stock_movements = << >>
    /\ price_history = << >>
    /\ seq = [products |-> 1, customers |-> 1, sales |-> 0, users |-> Len(SeedUserRows)]
    /\ users = SeedUsers
    /\ categories = SeedCategories
    /\ schema = TRUE
    /\ env = [DB_INIT_KEY |-> "secret"]
    /\ clients = [c \in ClientIds |-> NoClient]
    /\ res = [op |-> "none", status |-> 0, id |-> 0]

Next ==
    \/ CreateSale
    \/ CreateSaleFault
    \/ UpdateSale
    \/ DeleteSale
    \/ DeleteSaleFault
    \/ CreateProduct
    \/ UpdateProduct
    \/ DeleteProduct
    \/ CreateCustomer
    \/ UpdateCustomer
    \/ DeleteCustomer

Spec == Init /\ [][Next]_vars

---------------------------------------------------------------------------
(* Properties of the sales ledger.  res names the last request that wrote  *)
(* to the database, so a step that changes a table is a step of res'.op.    *)

RoleOf(id) == (CHOOSE u \in Identities : u.id = id).role

\* the quantities of the lines of items that name product p, summed
QuantityOf(items, p) ==
    SumSeq([i \in 1..Len(items) |->
               IF items[i].product_id = p THEN items[i].quantity ELSE 0], Len(items))

\* log is the log before followed by n more records
Extends(log, before, n) ==
    /\ Len(log) = Len(before) + n
    /\ SubSeq(log, 1, Len(before)) = before

\* the sales that exist and are attributed to customer c
SalesOf(c) == { s \in SaleIds : sales[s].exists /\ sales[s].customer_id = c }

RECURSIVE SumTotals(_)
SumTotals(S) ==
    IF S = {} THEN 0
    ELSE LET s == CHOOSE t \in S : TRUE
         IN  sales[s].total_amount + SumTotals(S \ {s})

\* the figures of a persisted sale but for the commission amount
SaleFigures(s) ==
    LET row == sales[s]
        items == SaleItemsOf(DB, s)
    IN  /\ row.subtotal = Subtotal(items)
        /\ row.total_amount = row.subtotal - row.discount_amount + row.tax_amount
        /\ row.commission_rate = IF RoleOf(row.sales_rep_id) = "sales_rep" THEN 5 ELSE 0

\* C1 as amended: every persisted sale has subtotal = the sum of quantity x unit
\* price over its lines, total = subtotal - discount + tax, rate 5 for a sales
\* representative and 0 otherwise, and commission = total x rate / 100 rounded
\* to the cent (exactly that when total x rate / 100 is a whole number of cents)
C1_SaleFigures ==
    \A s \in SaleIds : sales[s].exists =>
        /\ SaleFigures(s)
        /\ 2 * Abs(100 * sales[s].commission_amount
                    - sales[s].total_amount * sales[s].commission_rate) <= 100

\* C1 as stated: the figures of every persisted sale, with commission exactly
\* total x rate / 100
C1_ExactCommission ==
    \A s \in SaleIds : sales[s].exists =>
        /\ SaleFigures(s)
        /\ 100 * sales[s].commission_amount = sales[s].total_amount * sales[s].commission_rate

\* lines 2 x 10.00 and 1 x 5.00, discount 2.00, tax 1.00, sold by the sales rep
C1_Example ==
    \E s \in SaleIds :
        /\ sales[s].exists
        /\ Len(SaleItemsOf(DB, s)) = 2
        /\ sales[s].subtotal = 2500 /\ sales[s].discount_amount = 200 /\ sales[s].tax_amount = 100
        /\ sales[s].total_amount = 2400
        /\ sales[s].commission_rate = 5 /\ sales[s].commission_amount = 120

\* C2: a successful create-sale with N lines appends exactly N movements, one per
\* line in order, each 'out' with cause 'sale' and the line's product and quantity,
\* and lowers every product's stock by the quantities of its lines, whatever the
\* stock was
C2_SaleMovesStock ==
    [][ (res'.op = "createSale" /\ res'.status = 201 /\ seq'.sales # seq.sales) =>
          LET id == res'.id
              items == SelectSeq(sale_items', LAMBDA it : it.sale_id = id)
              N == Len(items)
              L == Len(stock_movements)
          IN  /\ N > 0
              /\ Extends(stock_movements', stock_movements, N)
              /\ \A i \in 1..N :
                    LET m == stock_movements'[L + i]
                    IN  /\ m.movement_type = "out" /\ m.reference_type = "sale"
                        /\ m.reference_id = id
                        /\ m.product_id = items[i].product_id
                        /\ m.quantity = items[i].quantity
              /\ \A p \in ProductIds :
                    products'[p] = [products[p] EXCEPT
                                       !.stock_quantity = @ - QuantityOf(items, p)]
      ]_vars

\* a sale went through on stock that did not cover it
C2_SoldBelowZero ==
    /\ res.op = "createSale" /\ res.status = 201
    /\ \E i \in 1..Len(stock_movements) :
          /\ stock_movements[i].reference_id = res.id
          /\ stock_movements[i].movement_type = "out"
          /\ products[stock_movements[i].product_id].stock_quantity < 0

\* C3: a create-sale or delete-sale that fails at any statement leaves sales, sale
\* lines, stock movements, products and customers as they were before the request
C3_AllOrNothing ==
    [][ (res'.op \in {"createSale", "deleteSale"} /\ res'.status \notin {200, 201}) =>
          UNCHANGED <<sales, sale_items, stock_movements, products, customers>>
      ]_vars

\* a create-sale failed after its INSERT INTO sales had drawn an id
C3_FailedAfterInsert ==
    /\ res.op = "createSale" /\ res.status = 500
    /\ seq.sales > 0 /\ ~sales[seq.sales].exists
    /\ \A i \in 1..Len(sale_items) : sale_items[i].sale_id # seq.sales
    /\ \A i \in 1..Len(stock_movements) : stock_movements[i].reference_id # seq.sales

\* C4 as stated: a create-sale whose item list is empty or has a line without
\* product, quantity or unit price is answered 400 and writes nothing
C4_InvalidCartIs400 ==
    \A user \in Identities, body \in SaleBodies :
        body.items \in InvalidCarts =>
            LET r == handleCreateSale(DB, user, body, seq.sales + 1, 0)
            IN  r.status = 400 /\ r.db = DB

\* C5: a create-sale followed by the administrator's delete of that sale leaves
\* products, customers, sales and sale lines as before the creation, and the log
\* as before followed by the N 'out' movements and then N 'in' movements with cause
\* 'sale_delete', one per line with the line's product and quantity
C5_CreateThenDelete ==
    seq.sales < MaxSales =>
        \A user \in Identities, body \in SaleRequests :
            LET c == handleCreateSale(DB, user, body, seq.sales + 1, 0)
            IN  c.status = 201 =>
                  LET x == handleDeleteSale(c.db, Admin, c.id, 0)
                      N == Len(body.items)
                      L == Len(stock_movements)
                      log == x.db.stock_movements
                  IN  /\ x.status = 200
                      /\ x.db.products = products
                      /\ x.db.customers = customers
                      /\ ~SaleExists(x.db, c.id) /\ SaleItemsOf(x.db, c.id) = << >>
                      /\ x.db.sales = sales /\ x.db.sale_items = sale_items
                      /\ Extends(log, c.db.stock_movements, N)
                      /\ Extends(c.db.stock_movements, stock_movements, N)
                      /\ \A i \in 1..N :
                            /\ log[L + i].movement_type = "out"
                            /\ log[L + i].product_id = body.items[i].product_id
                            /\ log[L + i].quantity = body.items[i].quantity
                            /\ log[L + N + i].movement_type = "in"
                            /\ log[L + N + i].reference_type = "sale_delete"
                            /\ log[L + N + i].product_id = body.items[i].product_id
                            /\ log[L + N + i].quantity = body.items[i].quantity

\* a sale of a customer was created and deleted: its movements are in the log, out
\* then in, the sale is gone, the customer's total is back at 0 and the stock at 50
C5_Reversed ==
    /\ res.op = "deleteSale" /\ res.status = 200 /\ ~sales[res.id].exists
    /\ \E i, j \in 1..Len(stock_movements) :
          /\ i < j
          /\ stock_movements[i].movement_type = "out" /\ stock_movements[i].reference_id = res.id
          /\ stock_movements[j].movement_type = "in"
          /\ stock_movements[j].reference_type = "sale_delete"
          /\ stock_movements[j].product_id = stock_movements[i].product_id
    /\ customers[1].exists /\ customers[1].total_purchases = 0
    /\ products[1].stock_quantity = 50
    /\ \A s \in SaleIds : ~sales[s].exists

\* C6: a delete-sale by an identity that is not an administrator is answered 403
\* and writes nothing; the administrator's delete of an existing sale is answered
\* 200 and the sale is gone
C6_OnlyAdminDeletes ==
    \A id \in SaleIds :
        /\ \A user \in Identities :
              user.role # "admin" =>
                  LET r == handleDeleteSale(DB, user, id, 0)
                  IN  r.status = 403 /\ r.db = DB
        /\ SaleExists(DB, id) =>
              LET r == handleDeleteSale(DB, Admin, id, 0)
              IN  r.status = 200 /\ ~SaleExists(r.db, id)

\* the administrator deleted one sale and another, made by the sales rep, exists
C6_AdminDeleted ==
    /\ res.op = "deleteSale" /\ res.status = 200
    /\ \E id \in SaleIds : sales[id].exists /\ RoleOf(sales[id].sales_rep_id) = "sales_rep"

\* C7: an update-sale changes nothing but payment_method, payment_status and notes
\* of the sale it addresses
C7_UpdateSaleFrame ==
    [][ res'.op = "updateSale" =>
          /\ UNCHANGED <<products, customers, sale_items, stock_movements, price_history, seq>>
          /\ \A s \in SaleIds :
                /\ s # res'.id => sales'[s] = sales[s]
                /\ sales[s] = [sales'[s] EXCEPT !.payment_method = sales[s].payment_method,
                                                !.payment_status = sales[s].payment_status,
                                                !.notes = sales[s].notes]
      ]_vars

\* a sale with a commission was updated to card, pending, with a note
C7_Updated ==
    /\ res.op = "updateSale" /\ res.status = 200
    /\ sales[res.id].payment_method = "card" /\ sales[res.id].payment_status = "pending"
    /\ sales[res.id].notes = "on account"
    /\ sales[res.id].commission_amount > 0

\* C8 as stated: every step that changes the stock quantity of a product appends
\* exactly one movement of that product per change, the quantity moving by what
\* the appended movements say
C8_StockChangeLogged ==
    [][ \A p \in ProductIds :
          (products[p].exists /\ products'[p].exists
             /\ products'[p].stock_quantity # products[p].stock_quantity) =>
              /\ Len(stock_movements') > Len(stock_movements)
              /\ \E i \in (Len(stock_movements) + 1)..Len(stock_movements') :
                    stock_movements'[i].product_id = p
      ]_vars

\* C9: no step modifies or removes a movement: the log after a step is the log
\* before it, followed by the records the step appended
C9_LogAppendOnly ==
    [][ /\ Len(stock_movements') >= Len(stock_movements)
        /\ SubSeq(stock_movements', 1, Len(stock_movements)) = stock_movements
      ]_vars

\* a sale was deleted and a product has been updated; the sale's 'out' movement
\* is still the first record of the log
C9_LogKept ==
    /\ \E s \in SaleIds : seq.sales >= s /\ ~sales[s].exists
                            /\ stock_movements # << >>
                            /\ stock_movements[1].reference_id = s
                            /\ stock_movements[1].movement_type = "out"
    /\ res.op \in {"updateProduct", "deleteCustomer", "deleteProduct"}
    /\ \E i \in 1..Len(stock_movements) : stock_movements[i].reference_type = "sale_delete"

\* C10: each customer's total_purchases is the sum of total_amount over the
\* existing sales attributed to that customer
C10_TotalPurchases ==
    \A c \in CustomerIds :
        customers[c].exists => customers[c].total_purchases = SumTotals(SalesOf(c))

\* a customer, since updated, has one sale left of the two made, and a total
C10_AfterDelete ==
    \E c \in CustomerIds :
        /\ customers[c].exists /\ customers[c].customer_type = "business"
        /\ Cardinality(SalesOf(c)) = 1
        /\ seq.sales = MaxSales
        /\ customers[c].total_purchases > 0
        /\ res.op = "deleteSale" /\ res.status = 200

---------------------------------------------------------------------------
(* Deleting products and customers; sale numbers *)

\* some existing sale line names product p
Sold(p) == \E i \in 1..Len(sale_items) : sale_items[i].product_id = p

\* some existing sale is attributed to customer c
Buyer(c) == \E s \in SaleIds : sales[s].exists /\ sales[s].customer_id = c

\* C11: the delete of a product that a sale line references, or of a customer
\* that a sale references, by any identity, is answered 400 (Conflict) and
\* writes nothing, so the product or customer stays
C11_ReferencedStays ==
    \A user \in Identities :
        /\ \A p \in ProductIds :
              (ProductExists(DB, p) /\ Sold(p)) =>
                  LET r == handleDeleteProduct(DB, user, p, 0)
                  IN  r.status = 400 /\ r.db = DB
        /\ \A c \in CustomerIds :
              (CustomerExists(DB, c) /\ Buyer(c)) =>
                  LET r == handleDeleteCustomer(DB, user, c, 0)
                  IN  r.status = 400 /\ r.db = DB

\* a product with a sale line and a customer with a sale, both refused
C11_Refused ==
    \E p \in ProductIds, c \in CustomerIds :
        /\ ProductExists(DB, p) /\ Sold(p)
        /\ CustomerExists(DB, c) /\ Buyer(c)
        /\ handleDeleteProduct(DB, Admin, p, 0).error =
              "Cannot delete product that has been used in sales"
        /\ handleDeleteCustomer(DB, Admin, c, 0).error =
              "Cannot delete customer that has sales history"

\* C12 as stated: the delete of an existing product that no sale line references,
\* or of an existing customer that no sale references, is answered 200 and
\* removes it
C12_UnreferencedGoes ==
    /\ \A p \in ProductIds :
          (ProductExists(DB, p) /\ ~Sold(p)) =>
              LET r == handleDeleteProduct(DB, Admin, p, 0)
              IN  r.status = 200 /\ ~ProductExists(r.db, p)
    /\ \A c \in CustomerIds :
          (CustomerExists(DB, c) /\ ~Buyer(c)) =>
              LET r == handleDeleteCustomer(DB, Admin, c, 0)
              IN  r.status = 200 /\ ~CustomerExists(r.db, c)

\* C16 as stated: a create-sale that would be answered 201 with a sale number no
\* sale has is answered 201 with whatever number generateSaleNumber returns, and
\* the sale it creates has a number no other sale has
C16_CollisionRetried ==
    seq.sales < MaxSales =>
        \A user \in Identities, body \in SaleRequests, sale_number \in SaleNumbers(DB) :
            handleCreateSale(DB, user, body, seq.sales + 1, 0).status = 201 =>
                LET r == handleCreateSale(DB, user, body, sale_number, 0)
                IN  /\ r.status = 201
                    /\ \A s \in SaleIds :
                          (SaleExists(r.db, s) /\ s # r.id) =>
                              r.db.sales[s].sale_number # r.db.sales[r.id].sale_number

---------------------------------------------------------------------------
(* Requests that hold a pooled connection, interleaved.                      *)
(*                                                                           *)
(* A client is one request: pc is where it stands (start: before             *)
(* pool.connect(); tx: inside try, at statement i; caught: inside catch,     *)
(* before ROLLBACK; finally: before client.release(); done: answered).       *)
(* The tables hold the current row versions.  A create-sale runs statement   *)
(* by statement; its UPDATE of a product row locks the row, reads it and     *)
(* writes it, and the lock is held until COMMIT or ROLLBACK (READ COMMITTED).*)
(* The transaction of a delete-sale, of createTables and of seedInitialData  *)
(* runs in one step, once no row it updates is locked.                       *)

\* the tables after a step are those of d
Tables(d) ==
    /\ products' = d.products
    /\ customers' = d.customers
    /\ sales' = d.sales
    /\ sale_items' = d.sale_items
    /\ stock_movements' = d.stock_movements
    /\ price_history' = d.price_history
    /\ seq' = d.seq
    /\ users' = d.users
    /\ categories' = d.categories
    /\ schema' = d.schema

\* the statements of a create-sale client; the sale id in them is the one its
\* INSERT INTO sales returned
ClientStmts(cl) ==
    CreateSaleStmts([seq |-> [sales |-> cl.sale_id - 1]], cl.user, cl.body, cl.sale_number)

\* the statements of the transaction a delete-sale or init-db client runs
UnitStmts(d, cl) ==
    CASE cl.kind = "deleteSale" -> DeleteSaleStmts(d, cl.user, cl.id, cl.sale)
      [] cl.kind = "initDb" /\ cl.unit = 1 -> CreateTablesStmts
      [] cl.kind = "initDb" /\ cl.unit = 2 -> SeedStmts(d)

\* the statements of cl's transaction that have run and are of the given kind
Ran(cl, kind) ==
    { j \in 1..Len(ClientStmts(cl)) : j < cl.i /\ ClientStmts(cl)[j].kind = kind }

\* the product rows and the customer rows a create-sale client holds a lock on
ProductLocks(cl) ==
    IF cl.kind = "createSale" /\ cl.pc \in {"tx", "caught"}
    THEN { ClientStmts(cl)[j].product_id : j \in Ran(cl, "UPDATE_STOCK") } \cup
         ( IF cl.read # << >> THEN { ClientStmts(cl)[cl.i].product_id } ELSE {} )
    ELSE {}

CustomerLocks(cl) ==
    IF cl.kind = "createSale" /\ cl.pc \in {"tx", "caught"}
    THEN { ClientStmts(cl)[j].customer_id : j \in Ran(cl, "UPDATE_CUSTOMER") }
    ELSE {}

\* as LockedByOther, with no row lock taken by UPDATE
MutLockedByOther(c, table, id) == FALSE

\* another client's transaction in progress has updated the row
LockedByOther(c, table, id) ==
    \E o \in ClientIds \ {c} :
        id \in (IF table = "products" THEN ProductLocks(clients[o])
                ELSE CustomerLocks(clients[o]))

\* the row the next statement of a create-sale client must lock, as << table, id >>
Needs(cl) ==
    IF cl.kind # "createSale" \/ cl.pc # "tx" \/ cl.i > Len(ClientStmts(cl)) THEN << >>
    ELSE LET st == ClientStmts(cl)[cl.i]
         IN  IF st.kind = "UPDATE_STOCK" /\ cl.read = << >> THEN << "products", st.product_id >>
             ELSE IF st.kind = "UPDATE_CUSTOMER" THEN << "customers", st.customer_id >>
             ELSE << >>

\* the clients that hold the lock client c waits for
WaitsFor(c) ==
    LET need == Needs(clients[c])
    IN  IF need = << >> THEN {}
        ELSE { o \in ClientIds \ {c} :
                  need[2] \in (IF need[1] = "products" THEN ProductLocks(clients[o])
                               ELSE CustomerLocks(clients[o])) }

RECURSIVE Reaches(_, _, _)
\* a chain of at most n waits leads from client a to client b
Reaches(a, b, n) ==
    n > 0 /\ \E o \in WaitsFor(a) : o = b \/ Reaches(o, b, n - 1)

\* ROLLBACK of a create-sale in progress: its sale, lines and movements are gone
\* and the rows it updated are as before its updates
Undo(d, cl) ==
    LET stmts == ClientStmts(cl)
        restock(p) == SumSeq([j \in 1..Len(stmts) |->
                                 IF j \in Ran(cl, "UPDATE_STOCK") /\ stmts[j].product_id = p
                                 THEN stmts[j].delta ELSE 0], Len(stmts))
        spent(c) == SumSeq([j \in 1..Len(stmts) |->
                               IF j \in Ran(cl, "UPDATE_CUSTOMER") /\ stmts[j].customer_id = c
                               THEN stmts[j].delta ELSE 0], Len(stmts))
    IN  [d EXCEPT
            !.sales = [s \in DOMAIN @ |-> IF s = cl.sale_id THEN NoSale ELSE @[s]],
            !.sale_items = SelectSeq(@, LAMBDA it : it.sale_id # cl.sale_id),
            !.stock_movements = SelectSeq(@, LAMBDA m :
                                    ~(m.reference_type = "sale" /\ m.reference_id = cl.sale_id)),
            !.products = [p \in DOMAIN @ |->
                             [@[p] EXCEPT !.stock_quantity = @ - restock(p)]],
            !.customers = [c \in DOMAIN @ |->
                              [@[c] EXCEPT !.total_purchases = @ - spent(c)]]]

\* as release, with the client given back only after a COMMIT
MutRelease(cl) == IF cl.error = "" THEN [cl EXCEPT !.released = @ + 1] ELSE cl

\* finally { client.release() }
release(cl) == [cl EXCEPT !.released = @ + 1]

\* the status of the answer to a client whose work ended with the given error
Answer(cl, error) ==
    IF error = "" THEN (IF cl.kind = "createSale" THEN 201 ELSE 200)
    ELSE IF cl.kind = "initDb" THEN 500
    ELSE CaughtStatus(error)

\* the sale of a delete-sale is gone when the request arrives: 404, no connection
Refuse(c) ==
    LET cl == clients[c]
    IN  /\ cl.pc = "start" /\ cl.kind = "deleteSale" /\ ~SaleExists(DB, cl.id)
        /\ clients' = [clients EXCEPT ![c] = [cl EXCEPT !.pc = "done", !.status = 404]]
        /\ UNCHANGED <<products, customers, sales, sale_items, stock_movements, price_history,
                       seq, users, categories, schema, env, res>>

\* const client = await pool.connect()
Connect(c) ==
    LET cl == clients[c]
    IN  /\ cl.pc = "start"
        /\ cl.kind = "deleteSale" => SaleExists(DB, cl.id)
        /\ clients' = [clients EXCEPT ![c] =
              [cl EXCEPT !.pc = "tx", !.i = 1, !.acquired = @ + 1,
                         !.sale = IF cl.kind = "deleteSale" THEN sales[cl.id] ELSE @]]
        /\ UNCHANGED <<products, customers, sales, sale_items, stock_movements, price_history,
                       seq, users, categories, schema, env, res>>

\* pool.connect() rejects: no client is handed out and the handler's catch answers
ConnectFails(c) ==
    LET cl == clients[c]
    IN  /\ cl.pc = "start"
        /\ cl.kind = "deleteSale" => SaleExists(DB, cl.id)
        /\ clients' = [clients EXCEPT ![c] =
              [cl EXCEPT !.pc = "done", !.status = Answer(cl, "database error")]]
        /\ UNCHANGED <<products, customers, sales, sale_items, stock_movements, price_history,
                       seq, users, categories, schema, env, res>>

\* the next statement of a create-sale runs; UPDATE products takes the row lock and
\* reads the row in one step and writes it in the next
Step(c) ==
    LET cl == clients[c]
        st == ClientStmts(cl)[cl.i]
        locks == st.kind = "UPDATE_STOCK" /\ cl.read = << >>
        r == CASE locks -> Done(DB)
               [] st.kind = "UPDATE_STOCK" /\ cl.read # << >> ->
                     Exec([DB EXCEPT !.products[st.product_id].stock_quantity = cl.read[1]], st)
               [] OTHER -> Exec(DB, st)
    IN  /\ cl.kind = "createSale" /\ cl.pc = "tx"
        /\ Needs(cl) # << >> => ~LockedByOther(c, Needs(cl)[1], Needs(cl)[2])
        /\ Tables(r.db)
        /\ clients' = [clients EXCEPT ![c] =
              IF locks THEN [cl EXCEPT !.read = << products[st.product_id].stock_quantity >>]
              ELSE IF ~r.ok THEN [cl EXCEPT !.pc = "caught", !.error = r.error, !.read = << >>]
              ELSE [cl EXCEPT !.i = @ + 1, !.read = << >>,
                              !.sale_id = IF st.kind = "INSERT_SALE" THEN r.db.seq.sales ELSE @,
                              !.pc = IF st.kind = "COMMIT" THEN "finally" ELSE "tx"]]
        /\ UNCHANGED <<env, res>>

\* the next statement of a create-sale fails in the database
StepFails(c) ==
    LET cl == clients[c]
    IN  /\ cl.kind = "createSale" /\ cl.pc = "tx"
        /\ clients' = [clients EXCEPT ![c] =
              [cl EXCEPT !.pc = "caught", !.error = "database error"]]
        /\ UNCHANGED <<products, customers, sales, sale_items, stock_movements, price_history,
                       seq, users, categories, schema, env, res>>

\* the client waits for a row lock in a cycle of waits: the database aborts its statement
Deadlocked(c) ==
    LET cl == clients[c]
    IN  /\ Needs(cl) # << >>
        /\ Reaches(c, c, MaxClients)
        /\ clients' = [clients EXCEPT ![c] =
              [cl EXCEPT !.pc = "caught", !.error = "deadlock detected"]]
        /\ UNCHANGED <<products, customers, sales, sale_items, stock_movements, price_history,
                       seq, users, categories, schema, env, res>>

\* catch { await client.query('ROLLBACK'); throw error }: whether ROLLBACK answers or
\* throws itself, the transaction is over and its work undone
RollBack(c) ==
    LET cl == clients[c]
    IN  /\ cl.pc = "caught"
        /\ Tables(Undo(DB, cl))
        /\ \E error \in {cl.error, "database error"} :
              clients' = [clients EXCEPT ![c] =
                 [cl EXCEPT !.pc = "finally", !.error = error, !.read = << >>]]
        /\ UNCHANGED <<env, res>>

\* the transaction of a delete-sale, of createTables or of seedInitialData, rolled
\* back if one of its statements fails
RunUnit(c) ==
    LET cl == clients[c]
        stmts == UnitStmts(DB, cl)
    IN  /\ cl.kind \in {"deleteSale", "initDb"} /\ cl.pc = "tx"
        /\ \A j \in 1..Len(stmts) :
              /\ stmts[j].kind = "UPDATE_STOCK" => ~LockedByOther(c, "products", stmts[j].product_id)
              /\ stmts[j].kind = "UPDATE_CUSTOMER" => ~LockedByOther(c, "customers", stmts[j].customer_id)
        /\ \E failAt \in 0..Len(stmts) :
              LET tx == Transaction(DB, stmts, failAt)
              IN  /\ Tables(tx.db)
                  /\ clients' = [clients EXCEPT ![c] =
                        [cl EXCEPT !.pc = "finally", !.error = tx.error]]
        /\ UNCHANGED <<env, res>>

\* finally { client.release() }, then the answer; initializeDatabase goes on to
\* seedInitialData once createTables has returned
Release(c) ==
    LET cl == release(clients[c])
    IN  /\ cl.pc = "finally"
        /\ clients' = [clients EXCEPT ![c] =
              IF cl.kind = "initDb" /\ cl.unit = 1 /\ cl.error = ""
              THEN [cl EXCEPT !.pc = "start", !.unit = 2]
              ELSE [cl EXCEPT !.pc = "done", !.status = Answer(cl, cl.error)]]
        /\ UNCHANGED <<products, customers, sales, sale_items, stock_movements, price_history,
                       seq, users, categories, schema, env, res>>

\* a request that has just arrived
NewClient(kind, user, body, id, sale_number) ==
    [NoClient EXCEPT !.kind = kind, !.user = user, !.body = body, !.id = id,
                     !.sale_number = sale_number, !.unit = 1, !.pc = "start"]

\* the requests client c can be
ClientRequests(c) ==
    { NewClient("createSale", [id |-> 2, role |-> "sales_rep"],
                SaleBody(1, << Item(1, 2, 1000), Item(2, 1, 500) >>, <<0, 10>>), 0, 100 + c),
      NewClient("createSale", Admin,
                SaleBody(0, << Item(2, 3, 500), Item(1, 1, 1000) >>, <<200, 100>>), 0, 100 + c),
      NewClient("deleteSale", Admin, << >>, 1, 0),
      NewClient("initDb", [id |-> 0, role |-> ""], << >>, 0, 0) }

\* the ids table sales can hold: the sale already there and one per client
ConcurrentSaleIds == 1..(MaxClients + 1)

\* the seeded database (as many seeded products and customers as the tables hold)
Seeded ==
    [products |-> [p \in ProductIds |->
                      IF p <= Len(SeedProductRows) THEN SeedProductRows[p] ELSE NoProduct],
     customers |-> [c \in CustomerIds |->
                      IF c <= Len(SeedCustomerRows) THEN SeedCustomerRows[c] ELSE NoCustomer],
     sales |-> [s \in ConcurrentSaleIds |-> NoSale],
     sale_items |-> << >>, stock_movements |-> << >>, price_history |-> << >>,
     seq |-> [products |-> MaxProducts, customers |-> MaxCustomers, sales |-> 0,
              users |-> Len(SeedUserRows)],
     users |-> SeedUsers, categories |-> SeedCategories, schema |-> TRUE]

\* the seeded database after one sale by the sales rep
Stocked ==
    handleCreateSale(Seeded, [id |-> 2, role |-> "sales_rep"],
                     SaleBody(1, << Item(1, 2, 1000), Item(2, 1, 500) >>, <<0, 10>>), 1, 0).db

\* the seeded database with one sale, and one request per client, none started
InitConcurrent ==
    /\ products = Stocked.products
    /\ customers = Stocked.customers
    /\ sales = Stocked.sales
    /\ sale_items = Stocked.sale_items
    /\ stock_movements = Stocked.stock_movements
    /\ price_history = Stocked.price_history
    /\ seq = Stocked.seq
    /\ users = Stocked.users
    /\ categories = Stocked.categories
    /\ schema = Stocked.schema
    /\ env = [DB_INIT_KEY |-> "secret"]
    /\ clients \in { f \in [ClientIds -> UNION { ClientRequests(c) : c \in ClientIds }] :
                        \A c \in ClientIds : f[c] \in ClientRequests(c) }
    /\ res = [op |-> "none", status |-> 0, id |-> 0]

NextConcurrent ==
    \/ \E c \in ClientIds : Refuse(c)
    \/ \E c \in ClientIds : Connect(c)
    \/ \E c \in ClientIds : ConnectFails(c)
    \/ \E c \in ClientIds : Step(c)
    \/ \E c \in ClientIds : StepFails(c)
    \/ \E c \in ClientIds : Deadlocked(c)
    \/ \E c \in ClientIds : RollBack(c)
    \/ \E c \in ClientIds : RunUnit(c)
    \/ \E c \in ClientIds : Release(c)

SpecConcurrent == InitConcurrent /\ [][NextConcurrent]_vars

---------------------------------------------------------------------------
(* Properties of interleaved requests *)

\* the create-sale clients that were answered 201
Committed == { c \in ClientIds : clients[c].kind = "createSale" /\ clients[c].status = 201 }

\* what the committed create-sales sold of product p
SoldByClients(p) ==
    SumSeq([c \in 1..MaxClients |->
               IF c \in Committed THEN QuantityOf(clients[c].body.items, p) ELSE 0], MaxClients)

\* the 'out' movements a sale with the given id, user and items leaves, in item order
OutMovements(sale_id, user, items) ==
    [i \in 1..Len(items) |->
        [product_id |-> items[i].product_id, movement_type |-> "out",
         quantity |-> items[i].quantity, reference_type |-> "sale",
         reference_id |-> sale_id, created_by |-> user.id]]

\* C13: once concurrent create-sale requests have all been answered, the stock of
\* every product is its stock before them minus the quantities of the sales that
\* committed (no decrement is lost), and every committed sale has left exactly its
\* own 'out' movements
C13_Serialized ==
    (\A c \in ClientIds : clients[c].kind = "createSale" /\ clients[c].pc = "done") =>
        /\ \A p \in ProductIds :
              products[p].stock_quantity = Stocked.products[p].stock_quantity - SoldByClients(p)
        /\ \A c \in Committed :
              SelectSeq(stock_movements, LAMBDA m :
                  m.reference_type = "sale" /\ m.reference_id = clients[c].sale_id)
              = OutMovements(clients[c].sale_id, clients[c].user, clients[c].body.items)

\* C13 witness: every client is a create-sale that committed, with carts that
\* name the same products
C13_AllCommitted ==
    /\ Committed = ClientIds
    /\ \A c \in ClientIds : clients[c].pc = "done"
    /\ \E p \in ProductIds : \A c \in ClientIds : QuantityOf(clients[c].body.items, p) > 0

\* C14: a request holds at most one pooled connection, holds it exactly between
\* pool.connect() and the finally block, and has released every connection it
\* acquired once it is answered, however its transaction ended
C14_ReleasedOnce ==
    \A c \in ClientIds :
        /\ clients[c].released <= clients[c].acquired
        /\ clients[c].acquired - clients[c].released
              = (IF clients[c].pc \in {"tx", "caught", "finally"} THEN 1 ELSE 0)
        /\ clients[c].pc = "done" => clients[c].released = clients[c].acquired

\* C14 witness: all requests are answered, one after a failed statement and a
\* rollback, one after a commit, and every connection is back in the pool
C14_AllBack ==
    /\ \A c \in ClientIds : clients[c].pc = "done" /\ clients[c].acquired > 0
                            /\ clients[c].released = clients[c].acquired
    /\ \E c \in ClientIds : clients[c].status = 500
    /\ \E c \in ClientIds : clients[c].status \in {200, 201}

---------------------------------------------------------------------------
(* The endpoints behind their bearer-token check *)

MaxSeedings == 2
MaxCreated == 1
\* room for the demo rows of MaxSeedings runs of seedInitialData and MaxCreated created rows
ApiProductIds == 1..(MaxSeedings * Len(SeedProductRows) + MaxCreated)
ApiCustomerIds == 1..(MaxSeedings * Len(SeedCustomerRows) + MaxCreated)

NoIdentity == [id |-> 0, username |-> "", role |-> ""]

\* a bearer credential: none, not a JWT, a JWT past its exp, a JWT signed with
\* another key, or a JWT generateToken signed; the payload is what it was issued with
Token(kind, userId, username, role) ==
    [kind |-> kind, userId |-> userId, username |-> username, role |-> role]

TokenKinds == {"absent", "malformed", "expired", "wrongkey", "valid"}

\* the credentials a caller can present: of each account in the table, and of an
\* account that is no longer there
Tokens(d) ==
    { Token(k, u, d.users[u].username, d.users[u].role) :
         k \in TokenKinds, u \in { v \in DOMAIN d.users : d.users[v].exists } }
    \cup { Token(k, MaxUsers + 1, "former", "admin") : k \in TokenKinds }

\* as AccountActive, with the is_active flag not looked at
MutAccountActive(d, id) == id \in DOMAIN d.users /\ d.users[id].exists

\* result.rows.length > 0 && result.rows[0].is_active
AccountActive(d, id) == id \in DOMAIN d.users /\ d.users[id].exists /\ d.users[id].is_active

\* authenticateToken: the identity of the token, or the error it throws; every error
\* inside its try (jwt.verify, the users query, the inactive check) is rethrown as
\* 'Invalid or expired token'.  lookupFails: the users query fails in the database
authenticateToken(d, token, lookupFails) ==
    IF token.kind = "absent"
    THEN [ok |-> FALSE, error |-> "Access token required", user |-> NoIdentity]
    ELSE IF token.kind # "valid" \/ lookupFails \/ ~d.schema \/ ~AccountActive(d, token.userId)
    THEN [ok |-> FALSE, error |-> "Invalid or expired token", user |-> NoIdentity]
    ELSE [ok |-> TRUE, error |-> "",
          user |-> [id |-> token.userId, username |-> token.username, role |-> token.role]]

\* what an endpoint leaves: a Result, the identity that reached the handler and the
\* business data in the response body
NoData == << >>
Served(r, user, data) ==
    [db |-> r.db, status |-> r.status, error |-> r.error, id |-> r.id,
     user |-> user, data |-> data]

\* the ids of the sales in the table, and of those of one sales rep
AllSales(d) == { s \in DOMAIN d.sales : d.sales[s].exists }
SalesBy(d, u) == { s \in AllSales(d) : d.sales[s].sales_rep_id = u }

\* COUNT(*), SUM(total_amount) and SUM(commission_amount) over the sales with the
\* given ids
Figures(d, ids) ==
    [total_sales |-> Cardinality(ids),
     total_revenue |-> SumSeq([s \in DOMAIN d.sales |->
                                 IF s \in ids THEN d.sales[s].total_amount ELSE 0],
                              Cardinality(DOMAIN d.sales)),
     total_commission |-> SumSeq([s \in DOMAIN d.sales |->
                                    IF s \in ids THEN d.sales[s].commission_amount ELSE 0],
                                 Cardinality(DOMAIN d.sales))]

\* generateAnalytics(user), its sections computed from sales (every sale is recent):
\* sales, sales_rep_performance or my_performance, recent_sales
generateAnalytics(d, user) ==
    [sales |-> Figures(d, AllSales(d)),
     sales_rep_performance |->
        IF user.role = "admin"
        THEN { [username |-> d.users[u].username] @@ Figures(d, SalesBy(d, u)) :
                  u \in { v \in DOMAIN d.users : d.users[v].exists /\ d.users[v].role = "sales_rep"
                                                  /\ d.users[v].is_active } }
        ELSE {},
     my_performance |->
        IF user.role = "admin" THEN << >> ELSE << Figures(d, SalesBy(d, user.id)) >>,
     recent_sales |->
        { [sale_number |-> d.sales[s].sale_number, total_amount |-> d.sales[s].total_amount,
           customer_id |-> d.sales[s].customer_id,
           sales_rep |-> d.users[d.sales[s].sales_rep_id].username] : s \in AllSales(d) }]

\* the GET handlers: one or more SELECTs on the pool, the rows sent back
handleGet(route, d, user, failAt) ==
    IF failAt = 1 THEN Result(d, CaughtStatus("database error"), "database error", 0) @@ [data |-> NoData]
    ELSE Result(d, 200, "", 0) @@
         [data |-> CASE route = "sales" -> d.sales
                     [] route = "products" -> d.products
                     [] route = "customers" -> d.customers
                     [] route = "analytics" -> generateAnalytics(d, user)]

\* a request: the route, the method, the credential, ?id= and the body
Request(route, method, token, id, body) ==
    [route |-> route, method |-> method, token |-> token, id |-> id, body |-> body]

\* export default async function handler(req, res) of /sales, /products, /customers
\* and /analytics.  Database call failAt of the request (if any) fails: call 1 is the
\* users query of authenticateToken, the next ones are the handler's
handler(d, req, sale_number, failAt) ==
    LET auth == authenticateToken(d, req.token, failAt = 1)
        at == IF failAt > 1 THEN failAt - 1 ELSE 0
        refused(status, message) == Served(Result(d, status, message, 0), NoIdentity, NoData)
        to(r) == Served(r, auth.user, NoData)
    IN  IF req.method = "OPTIONS" THEN refused(200, "")
        ELSE IF req.route = "analytics" /\ req.method # "GET" THEN refused(405, "Method not allowed")
        ELSE IF ~auth.ok THEN refused(CaughtStatus(auth.error), auth.error)
        ELSE IF req.method = "GET"
        THEN LET r == handleGet(req.route, d, auth.user, at) IN Served(r, auth.user, r.data)
        ELSE CASE req.route = "sales" /\ req.method = "POST" ->
                     to(handleCreateSale(d, auth.user, req.body, sale_number, at))
               [] req.route = "sales" /\ req.method = "PUT" ->
                     to(handleUpdateSale(d, auth.user, req.id, req.body, at))
               [] req.route = "sales" /\ req.method = "DELETE" ->
                     to(handleDeleteSale(d, auth.user, req.id, at))
               [] req.route = "products" /\ req.method = "POST" ->
                     to(handleCreateProduct(d, auth.user, req.body, at))
               [] req.route = "products" /\ req.method = "PUT" ->
                     to(handleUpdateProduct(d, auth.user, req.id, req.body, at))
               [] req.route = "products" /\ req.method = "DELETE" ->
                     to(handleDeleteProduct(d, auth.user, req.id, at))
               [] req.route = "customers" /\ req.method = "POST" ->
                     to(handleCreateCustomer(d, auth.user, req.body, at))
               [] req.route = "customers" /\ req.method = "PUT" ->
                     to(handleUpdateCustomer(d, auth.user, req.id, req.body, at))
               [] req.route = "customers" /\ req.method = "DELETE" ->
                     to(handleDeleteCustomer(d, auth.user, req.id, at))
               [] OTHER -> Served(Result(d, 405, "Method not allowed", 0), auth.user, NoData)

\* email.toLowerCase(), on the addresses the requests carry
toLowerCase(email) ==
    CASE email = "Sales@Nerho.com" -> "sales@nerho.com"
      [] email = "Rep2@Nerho.com" -> "rep2@nerho.com"
      [] OTHER -> email

\* the body of POST /register; full_name is taken to be well-formed
RegisterBody(username, email, password, role) ==
    [username |-> username, email |-> email, password |-> password, role |-> role]

\* POST /register: validateRegisterData, the SELECT for the username or the email as
\* sent, the INSERT of the lowercased email (username and email are UNIQUE; role
\* defaults to 'sales_rep', is_active is true).  password stands for its bcrypt hash
handleRegister(d, body, failAt) ==
    IF Len(body.username) < 3 \/ body.email = "" \/ Len(body.password) < 6
    THEN Result(d, 400, "validation errors", 0)
    ELSE IF failAt = 1 \/ ~d.schema THEN Result(d, 500, "Registration failed", 0)
    ELSE IF \E u \in DOMAIN d.users :
               d.users[u].exists /\ (d.users[u].username = body.username
                                     \/ d.users[u].email = body.email)
    THEN Result(d, 400, "Username or email already exists", 0)
    ELSE IF failAt = 2 THEN Result(d, 500, "Registration failed", 0)
    ELSE LET id == d.seq.users + 1
         IN  IF \E u \in DOMAIN d.users :
                   d.users[u].exists /\ (d.users[u].username = body.username
                                         \/ d.users[u].email = toLowerCase(body.email))
             THEN Result([d EXCEPT !.seq.users = id], 500, "Registration failed", 0)
             ELSE Result([d EXCEPT !.users[id] =
                             [exists |-> TRUE, username |-> body.username,
                              email |-> toLowerCase(body.email), password |-> body.password,
                              role |-> DefinedOrCurrent(body.role, "sales_rep"),
                              is_active |-> TRUE],
                                   !.seq.users = id],
                         201, "User registered successfully", id)

\* POST /login: the SELECT by username, bcrypt.compare, the UPDATE of last_login;
\* database call failAt (if any) fails.  The answer carries the user and a token
handleLogin(d, body, failAt) ==
    LET found == { u \in DOMAIN d.users : d.users[u].exists /\ d.users[u].username = body.username }
        refused(status, message) == Served(Result(d, status, message, 0), NoIdentity, NoData)
    IN  IF body.username = "" \/ body.password = ""
        THEN refused(400, "Username and password are required")
        ELSE IF failAt = 1 \/ ~d.schema THEN refused(500, "Login failed")
        ELSE IF found = {} THEN refused(401, "Invalid username or password")
        ELSE LET id == CHOOSE u \in found : TRUE
                 user == d.users[id]
             IN  IF ~user.is_active THEN refused(401, "Account is inactive")
                 ELSE IF body.password # user.password
                 THEN refused(401, "Invalid username or password")
                 ELSE IF failAt = 2 THEN refused(500, "Login failed")
                 ELSE Served(Result(d, 200, "Login successful", id),
                             [id |-> id, username |-> user.username, role |-> user.role],
                             NoData)

\* a database no table of which exists yet
BlankDb ==
    [products |-> [p \in ApiProductIds |-> NoProduct],
     customers |-> [c \in ApiCustomerIds |-> NoCustomer],
     sales |-> [s \in SaleIds |-> NoSale],
     sale_items |-> << >>, stock_movements |-> << >>, price_history |-> << >>,
     seq |-> [products |-> 0, customers |-> 0, sales |-> 0, users |-> 0],
     users |-> [u \in UserIds |-> NoUser], categories |-> 0, schema |-> FALSE]

\* the database after POST /init-db, POST /register of a third account, and that
\* account's deactivation by the operator (UPDATE users SET is_active = false)
DeactivatedDb ==
    LET initialized == handleInitDb(BlankDb, [DB_INIT_KEY |-> "secret"],
                                    [init_key |-> "secret"], 0).db
        registered == handleRegister(initialized,
                                    RegisterBody("rep2", "Rep2@Nerho.com", "secret2", Undefined), 0)
    IN  [registered.db EXCEPT !.users[registered.id].is_active = FALSE]

InitKeys == { Undefined, "secret", "guess" }

\* the oldest row among those with the given ids
Oldest(ids) == { id \in ids : \A other \in ids : id <= other }

\* the requests the behaviours make to a route, with the credential of an account
\* in the table or with none; products and customers are deleted oldest first,
\* sales are not deleted
RouteRequests(d, route) ==
    LET tokens == { t \in Tokens(d) : t.kind \in {"valid", "absent"} /\ t.userId <= MaxUsers }
        posted == CASE route = "sales" -> SaleBody(1, << Item(1, 2, 1000) >>, <<0, 10>>)
                    [] route = "products" ->
                          [name |-> "Premium Cotton T-Shirt", cost_price |-> 800,
                           selling_price |-> 2499, stock_quantity |-> << >>]
                    [] route = "customers" -> [name |-> "ABC Corporation", customer_type |-> "business"]
                    [] OTHER -> << >>
        ids == CASE route = "products" -> Oldest({ p \in DOMAIN d.products : d.products[p].exists })
                 [] route = "customers" -> Oldest({ c \in DOMAIN d.customers : d.customers[c].exists })
                 [] OTHER -> {}
    IN  { Request(route, "GET", t, 0, << >>) : t \in tokens }
        \cup (IF route = "analytics" THEN {}
              ELSE { Request(route, "POST", t, 0, posted) : t \in tokens }
                   \cup { Request(route, "DELETE", t, id, << >>) : t \in tokens, id \in ids })

\* the behaviours create MaxSales sales, and MaxCreated products and customers
\* after the demo rows
Room(d, route) ==
    CASE route = "sales" -> d.seq.sales < MaxSales
      [] route = "products" -> d.seq.products < Len(SeedProductRows) + MaxCreated
      [] route = "customers" -> d.seq.customers < Len(SeedCustomerRows) + MaxCreated
      [] OTHER -> TRUE

\* every table holds the rows a run of seedInitialData can insert
SeedRoom(d) ==
    /\ d.seq.users + Len(SeedUserRows) <= Cardinality(DOMAIN d.users)
    /\ d.seq.products + Len(SeedProductRows) <= Cardinality(DOMAIN d.products)
    /\ d.seq.customers + Len(SeedCustomerRows) <= Cardinality(DOMAIN d.customers)

\* POST /init-db; the CREATE TABLE statements may fail in the database
InitDb ==
    /\ SeedRoom(DB)
    /\ \E init_key \in InitKeys, failAt \in {0, Len(CreateTablesStmts) - 1} :
          Reply("initDb", handleInitDb(DB, env, [init_key |-> init_key], failAt))

Register ==
    /\ seq.users < MaxUsers
    /\ \E failAt \in 0..1 :
          Reply("register",
                handleRegister(DB, RegisterBody("rep2", "Rep2@Nerho.com", "secret2", Undefined),
                               failAt))

\* POST /login with the credentials of a seeded account, or with a wrong password
Login ==
    \E password \in {"admin123", "guess"} :
        Reply("login", handleLogin(DB, [username |-> "admin", password |-> password], 0))

SalesApi ==
    \E req \in RouteRequests(DB, "sales") :
        /\ req.method = "POST" => Room(DB, "sales")
        /\ Reply("sales", handler(DB, req, DB.seq.sales + 1, 0))

ProductsApi ==
    \E req \in RouteRequests(DB, "products") :
        /\ req.method = "POST" => Room(DB, "products")
        /\ Reply("products", handler(DB, req, 0, 0))

CustomersApi ==
    \E req \in RouteRequests(DB, "customers") :
        /\ req.method = "POST" => Room(DB, "customers")
        /\ Reply("customers", handler(DB, req, 0, 0))

AnalyticsApi ==
    \E req \in RouteRequests(DB, "analytics") :
        Reply("analytics", handler(DB, req, 0, 0))

\* a blank database, or an initialized one with a deactivated account; the
\* initialization secret configured or not
InitApi ==
    /\ \E d \in { BlankDb, DeactivatedDb } :
          /\ products = d.products
          /\ customers = d.customers
          /\ sales = d.sales
          /\ sale_items = d.sale_items
          /\ stock_movements = d.stock_movements
          /\ price_history = d.price_history
          /\ seq = d.seq
          /\ users = d.users
          /\ categories = d.categories
          /\ schema = d.schema
    /\ env \in { [DB_INIT_KEY |-> Undefined], [DB_INIT_KEY |-> "secret"] }
    /\ clients = [c \in ClientIds |-> NoClient]
    /\ res = [op |-> "none", status |-> 0, id |-> 0]

NextApi ==
    \/ InitDb
    \/ Register
    \/ Login
    \/ SalesApi
    \/ ProductsApi
    \/ CustomersApi
    \/ AnalyticsApi

SpecApi == InitApi /\ [][NextApi]_vars

---------------------------------------------------------------------------
(* Properties of the endpoints *)

Routes == {"sales", "products", "customers", "analytics"}
Methods == {"GET", "POST", "PUT", "DELETE"}

\* the account of a user id is in table users and active
Active(id) == id \in UserIds /\ users[id].exists /\ users[id].is_active

\* a credential generateToken signed, not expired, of an active account
Genuine(token) == token.kind = "valid" /\ Active(token.userId)

\* C15: a request to /sales, /products or /customers, or a GET to /analytics, whose
\* credential is absent, malformed, expired, signed with another key, or of a missing
\* or deactivated account is answered 401; any other method on /analytics is
\* answered 405 before the credential is looked at; either way no identity reaches
\* a handler and no business data is read or written.  A valid credential of an
\* active account yields the identity {id, username, role} of the credential
C15_Unauthenticated ==
    \A token \in Tokens(DB) :
        IF Genuine(token)
        THEN authenticateToken(DB, token, FALSE)
                = [ok |-> TRUE, error |-> "",
                   user |-> [id |-> token.userId, username |-> token.username,
                             role |-> token.role]]
        ELSE \A route \in Routes, method \in Methods :
                LET r == handler(DB, Request(route, method, token, 1, << >>), seq.sales + 1, 0)
                IN  /\ r.status = IF route = "analytics" /\ method # "GET" THEN 405 ELSE 401
                    /\ r.db = DB
                    /\ r.user = NoIdentity
                    /\ r.data = NoData

\* C15 witness: there is business data, an active account and a deactivated one
C15_Deactivated ==
    /\ \E u \in UserIds : users[u].exists /\ ~users[u].is_active
    /\ \E u \in UserIds : Active(u)
    /\ \E s \in SaleIds : sales[s].exists

\* C15 as stated: every such request, whatever its route and method, is answered 401
C15_Always401 ==
    \A token \in Tokens(DB), route \in Routes, method \in Methods :
        ~Genuine(token) =>
            handler(DB, Request(route, method, token, 1, << >>), seq.sales + 1, 0).status = 401

\* C17 as stated: a request with a genuine credential during which a database call
\* fails (the first call is the identity lookup, the second the handler's first)
\* is answered 500
C17_FaultIs500 ==
    \A token \in Tokens(DB), route \in Routes, failAt \in 1..2 :
        Genuine(token) =>
            handler(DB, Request(route, "GET", token, 0, << >>), 0, failAt).status = 500

\* C18 as stated: POST /init-db changes the database only when the request's key
\* equals a configured secret; every other request is answered 403 and changes nothing
C18_KeyGuards ==
    \A init_key \in InitKeys :
        LET r == handleInitDb(DB, env, [init_key |-> init_key], 0)
        IN  \/ env.DB_INIT_KEY # Undefined /\ init_key = env.DB_INIT_KEY
            \/ r.status = 403 /\ r.db = DB

\* the database was initialized: the tables are there and so is the admin account
Initialized == schema /\ categories > 0 /\ \E u \in UserIds : users[u].exists /\ users[u].username = "admin"

\* the rows of a table that exist, as a set of << id, row >>
RowsOf(table) == { << id, table[id] >> : id \in { i \in DOMAIN table : table[i].exists } }

\* POST /init-db with the configured key on the current database
Reinitialized == handleInitDb(DB, env, [init_key |-> env.DB_INIT_KEY], 0)

\* C19: POST /init-db with the correct key on an initialized database succeeds and
\* leaves users and categories as they were; it leaves products (customers) as they
\* were if the table still has a row, and otherwise inserts the demo products
\* (customers) again under new ids; sales are left alone
C19_SeedsEmptyTables ==
    (Initialized /\ SeedRoom(DB)) =>
        /\ Reinitialized.status = 200
        /\ Reinitialized.db.users = users
        /\ Reinitialized.db.categories = categories
        /\ Reinitialized.db.sales = sales
        /\ IF RowsOf(products) # {}
           THEN Reinitialized.db.products = products
           ELSE RowsOf(Reinitialized.db.products)
                   = { << seq.products + i, SeedProductRows[i] >> : i \in 1..Len(SeedProductRows) }
        /\ IF RowsOf(customers) # {}
           THEN Reinitialized.db.customers = customers
           ELSE RowsOf(Reinitialized.db.customers)
                   = { << seq.customers + i, SeedCustomerRows[i] >> : i \in 1..Len(SeedCustomerRows) }

\* C19 witness: every product had been deleted and POST /init-db inserted the demo
\* products a second time, next to a customer created in between
C19_Reseeded ==
    /\ res.op = "initDb"
    /\ seq.products >= 2 * Len(SeedProductRows)
    /\ RowsOf(products) # {}
    /\ seq.customers > Len(SeedCustomerRows)

\* C19 as stated: on an initialized database the run leaves users, categories,
\* products and customers exactly as they were
C19_Idempotent ==
    (Initialized /\ SeedRoom(DB)) =>
        /\ Reinitialized.status = 200
        /\ Reinitialized.db.users = users
        /\ Reinitialized.db.categories = categories
        /\ Reinitialized.db.products = products
        /\ Reinitialized.db.customers = customers

\* the database without the sales of the sales reps other than the one given
OwnSalesOnly(d, id) ==
    [d EXCEPT !.sales = [s \in DOMAIN @ |->
        IF @[s].exists /\ @[s].sales_rep_id # id /\ d.users[@[s].sales_rep_id].role = "sales_rep"
        THEN NoSale ELSE @[s]]]

\* C20 as stated: GET /analytics lists the performance of the sales reps only for an
\* admin, and what it answers to any other caller does not depend on the sales of
\* other sales reps
C20_OwnFiguresOnly ==
    \A token \in Tokens(DB) :
        (Genuine(token) /\ token.role # "admin") =>
            LET r == handler(DB, Request("analytics", "GET", token, 0, << >>), 0, 0)
                own == handler(OwnSalesOnly(DB, token.userId),
                               Request("analytics", "GET", token, 0, << >>), 0, 0)
            IN  /\ r.status = 200
                /\ r.data.sales_rep_performance = {}
                /\ r.data = own.data

---------------------------------------------------------------------------
(* Price changes *)

\* the price updates asked of a product: a new price, stock left alone
PriceUpdates == { [selling_price |-> 1999, stock_quantity |-> << >>] }

\* C21 as stated: a product update, whichever of its database calls fails (0: none),
\* leaves a changed selling price only together with exactly one new price-history
\* entry of the old and the new price, and writes no stock movement
C21_PriceChangeLogged ==
    \A id \in ProductIds, body \in PriceUpdates, failAt \in 0..3 :
        LET r == handleUpdateProduct(DB, Admin, id, body, failAt)
        IN  (ProductExists(DB, id)
             /\ r.db.products[id].selling_price # products[id].selling_price) =>
                /\ r.db.price_history
                      = Append(price_history,
                               PriceEntry(id, "updated", products[id].selling_price,
                                          body.selling_price, Admin.id))
                /\ r.db.stock_movements = stock_movements

---------------------------------------------------------------------------
(* Accounts *)

\* registrations: of a new name and address, of a taken address in other letter
\* case, of a taken name, and with a role in the body
RegisterBodies ==
    { RegisterBody("rep2", "Rep2@Nerho.com", "secret2", Undefined),
      RegisterBody("rep3", "Sales@Nerho.com", "secret3", Undefined),
      RegisterBody("sales_rep", "other@nerho.com", "secret4", Undefined),
      RegisterBody("boss", "boss@nerho.com", "secret5", "admin"),
      RegisterBody("guest", "guest@nerho.com", "secret6", "manager") }

\* the username of the body, or its email in the stored (lowercased) form, is a user's
Taken(body) ==
    \E u \in UserIds :
        users[u].exists /\ (users[u].username = body.username
                            \/ users[u].email = toLowerCase(body.email))

\* C22 as stated: a registration whose username or lowercased email is taken is
\* answered 400 and creates no user; any other valid one is answered 201 and creates
\* exactly one user
C22_DuplicateIs400 ==
    (schema /\ seq.users < MaxUsers) =>
        \A body \in RegisterBodies :
            LET r == handleRegister(DB, body, 0)
            IN  IF Taken(body)
                THEN r.status = 400 /\ r.db.users = users
                ELSE /\ r.status = 201
                     /\ \E id \in UserIds :
                           /\ ~users[id].exists /\ r.db.users[id].exists
                           /\ \A u \in UserIds \ {id} : r.db.users[u] = users[u]

\* the roles there are
USER_ROLES == {"admin", "sales_rep"}

\* C23 as stated: every user in the table has a role of USER_ROLES, and so has every
\* user a registration stores
C23_RolesClosed ==
    /\ \A u \in UserIds : users[u].exists => users[u].role \in USER_ROLES
    /\ (schema /\ seq.users < MaxUsers) =>
          \A body \in RegisterBodies :
              LET r == handleRegister(DB, body, 0)
              IN  r.status = 201 => r.db.users[r.id].role \in USER_ROLES

\* the token POST /register returns with its 201: generateToken(newUser.id,
\* newUser.username, newUser.role)
RegisteredToken(r) ==
    Token("valid", r.id, r.db.users[r.id].username, r.db.users[r.id].role)

\* C28 as stated: POST /register, which asks for no credential, never creates an
\* account with role admin and never returns a token whose identity passes the
\* admin check of delete-sale
C28_NoSelfMadeAdmin ==
    (schema /\ seq.users < MaxUsers) =>
        \A body \in RegisterBodies :
            LET r == handleRegister(DB, body, 0)
            IN  r.status = 201 =>
                   /\ r.db.users[r.id].role # "admin"
                   /\ ~IsAdmin(authenticateToken(r.db, RegisteredToken(r), FALSE).user)

\* the demo credentials of the README, with the role each is documented for
DemoCredentials ==
    { [username |-> "admin", password |-> "admin123", role |-> "admin"],
      [username |-> "salesrep", password |-> "sales123", role |-> "sales_rep"] }

\* C24 as stated: on an initialized database, POST /login with either documented
\* demo credential pair is answered 200 with a user of the documented role
C24_DemoLogins ==
    Initialized =>
        \A demo \in DemoCredentials :
            LET r == handleLogin(DB, [username |-> demo.username, password |-> demo.password], 0)
            IN  r.status = 200 /\ r.user.role = demo.role

---------------------------------------------------------------------------
(* Interleaved deletions of one sale *)

\* the delete-sale clients that were answered 200
Deleted == { c \in ClientIds : clients[c].kind = "deleteSale" /\ clients[c].status = 200 }

\* C25 as stated: once delete-sale requests of administrators for one sale have all
\* been answered, with no failure in the database, exactly one was answered 200 and
\* the others 404, and the sale's stock, its 'in' movements and its customer's total
\* were put back once
C25_CompensatedOnce ==
    (\A c \in ClientIds : /\ clients[c].kind = "deleteSale"
                          /\ clients[c].pc = "done"
                          /\ clients[c].status # 500) =>
        /\ Cardinality(Deleted) = 1
        /\ \A c \in ClientIds \ Deleted : clients[c].status = 404
        /\ \A p \in ProductIds :
              products[p].stock_quantity
                 = Stocked.products[p].stock_quantity
                   + QuantityOf(SaleItemsOf(Stocked, 1), p)
        /\ Len(stock_movements)
              = Len(Stocked.stock_movements) + Len(SaleItemsOf(Stocked, 1))
        /\ \A cust \in CustomerIds :
              customers[cust].total_purchases
                 = Stocked.customers[cust].total_purchases
                   - (IF Stocked.sales[1].customer_id = cust
                      THEN Stocked.sales[1].total_amount ELSE 0)

---------------------------------------------------------------------------
(* Quantities and catalog permissions *)

\* carts with a line whose quantity is missing or zero (0), or negative
NonPositiveCarts ==
    { << Item(1, 0, 1000) >>,
      << Item(1, 2, 1000), Item(1, 0, 500) >>,
      << Item(1, -2, 1000) >>,
      << Item(1, 2, 1000), Item(1, -3, 500) >> }

\* C26 as stated: every sale line in the table has a positive quantity, and a
\* create-sale with a line of missing, zero or negative quantity is rejected: it
\* persists no line, raises no stock and records no movement
C26_PositiveQuantities ==
    /\ \A i \in 1..Len(sale_items) : sale_items[i].quantity > 0
    /\ seq.sales < MaxSales =>
          \A user \in Identities, cart \in NonPositiveCarts :
              LET r == handleCreateSale(DB, user, SaleBody(0, cart, <<0, 10>>),
                                        seq.sales + 1, 0)
              IN  /\ r.status # 201
                  /\ r.db.sale_items = sale_items
                  /\ r.db.stock_movements = stock_movements
                  /\ \A p \in ProductIds :
                        r.db.products[p].stock_quantity <= products[p].stock_quantity

\* the identities whose role is sales_rep
SalesReps == { user \in Identities : user.role = "sales_rep" }

\* C27 as stated: a request of a sales rep to create, update or delete a product is
\* refused and leaves products, price history and stock as they were
C27_CatalogIsAdminOnly ==
    \A user \in SalesReps :
        /\ seq.products < MaxProducts =>
              \A body \in ProductBodies :
                 LET r == handleCreateProduct(DB, user, body, 0)
                 IN  r.status \in {400, 403} /\ r.db = DB
        /\ \A id \in ProductIds :
              /\ \A body \in ProductUpdates \cup PriceUpdates :
                    LET r == handleUpdateProduct(DB, user, id, body, 0)
                    IN  r.status # 200 /\ r.db = DB
              /\ LET r == handleDeleteProduct(DB, user, id, 0)
                 IN  r.status # 200 /\ r.db = DB

====
